---- MODULE Spec2Model ----
(***************************************************************************)
(* Model of the AI-detector demo page (src/app/page.tsx): the wrapper      *)
(* safeDetectAI around the imported detectAIText, and the React state and  *)
(* handlers of the Home component.                                         *)
(*                                                                         *)
(* Strings are run-length encoded: a string is a sequence of runs, each a  *)
(* kind of character ("ws" white space, "bmp" a character of one UTF-16    *)
(* unit, "astral" a character of two UTF-16 units) and a count.  What the  *)
(* imported engine reads off the characters (sentences, words, feature     *)
(* sub-scores) is carried by the text as its field ling.                   *)
(* Fractions are fixed-point hundredths: 50 stands for 0.5.                *)
(***************************************************************************)
EXTENDS Integers, Sequences, FiniteSets, TLC

VARIABLES
  text,            \* useState(""): the textarea's content
  result,          \* useState(null): <<>> for null, <<r>> for a result r
  isAnalyzing,     \* useState(false)
  selectedExample, \* useState(null)
  darkMode,        \* useState(true)
  copiedStates,    \* useState({}): button id -> boolean, keys added on use
  pending,         \* analyzeText runs waiting on their 1200 ms timer, each
                   \* holding the text its closure captured
  writes,          \* clipboard promises not yet settled, by button id
  timers,          \* 2000 ms timers not yet fired, by button id
  call,            \* the last call of safeDetectAI: <<>> before the first
                   \* one, then <<[arg, outcome]>>
  cleared          \* history: clearAll or loadExample has reset result and
                   \* no analysis was started since

vars == <<text, result, isAnalyzing, selectedExample, darkMode, copiedStates,
          pending, writes, timers, call, cleared>>
analysisVars == <<text, result, isAnalyzing, selectedExample, pending, call,
                  cleared>>
copyVars == <<copiedStates, writes, timers>>

(* ------------------------------ bounds --------------------------------- *)
MaxRuns == 2
MaxWrites == 1
MaxTimers == 2

(* --------------------------- fixed-point unit -------------------------- *)
One == 10 * 10
Min(a, b) == IF a < b THEN a ELSE b
Abs(a) == IF a < 0 THEN 0 - a ELSE a

(* ------------------------------ strings -------------------------------- *)
Kinds == {"ws", "bmp", "astral"}
RunLens == {1, 49}
Run(k, n) == [kind |-> k, n |-> n]

UnitsOf(kind) == IF kind = "astral" THEN 2 ELSE 1

RECURSIVE trimStart(_)
trimStart(runs) ==
  IF runs = <<>> THEN <<>>
  ELSE IF Head(runs).kind = "ws" THEN trimStart(Tail(runs)) ELSE runs

RECURSIVE trimEnd(_)
trimEnd(runs) ==
  IF runs = <<>> THEN <<>>
  ELSE IF runs[Len(runs)].kind = "ws"
       THEN trimEnd(SubSeq(runs, 1, Len(runs) - 1)) ELSE runs

\* String.prototype.trim: strips leading and trailing white space
trim(t) == [t EXCEPT !.runs = trimEnd(trimStart(@))]

RECURSIVE unitsOfRuns(_)
unitsOfRuns(runs) ==
  IF runs = <<>> THEN 0
  ELSE Head(runs).n * UnitsOf(Head(runs).kind) + unitsOfRuns(Tail(runs))

\* String.prototype.length: the number of UTF-16 code units
length(t) == unitsOfRuns(t.runs)

RECURSIVE codePointsOfRuns(_)
codePointsOfRuns(runs) ==
  IF runs = <<>> THEN 0 ELSE Head(runs).n + codePointsOfRuns(Tail(runs))

\* the number of Unicode code points of a string
codePoints(t) == codePointsOfRuns(t.runs)

\* truthiness of a string: the empty string is falsy
truthy(t) == t.runs # <<>>

(* ------------------- detectAIText (imported engine) -------------------- *)
Features == <<"avgSentenceLength", "sentenceLengthVariance",
              "vocabularyDiversity", "wordRepetitionRate", "avgWordRarity",
              "transitionWordDensity", "punctuationRegularity",
              "passiveVoiceDensity">>
FeatureIds == 1..Len(Features)
Weights == <<20, 20, 15, 15, 10, 10, 5, 5>>
SubLevels == {0, One}
MinSentences == 2
MinWords == 10
Threshold == One \div 2
Notable == 65

InsufficientDataMessage == "Insufficient data for analysis"
ComputationFaultMessage == "Computation fault"
NoThrow == "none"

NoSub == [i \in FeatureIds |-> 0]

RECURSIVE weightedSum(_, _)
weightedSum(sub, i) ==
  IF i = 0 THEN 0 ELSE Weights[i] * sub[i] + weightedSum(sub, i - 1)

\* ScoreAggregator.aggregate
aggregate(sub) ==
  LET score == weightedSum(sub, Len(Features)) \div One
  IN [score |-> score,
      isAIGenerated |-> score >= Threshold,
      confidence |-> Min(One, 2 * Abs(score - Threshold))]

strength(sub, isAI, i) == IF isAI THEN sub[i] ELSE One - sub[i]

RECURSIVE sortByStrength(_, _, _)
sortByStrength(S, sub, isAI) ==
  IF S = {} THEN <<>>
  ELSE LET best == CHOOSE i \in S : \A j \in S :
                     \/ strength(sub, isAI, i) > strength(sub, isAI, j)
                     \/ /\ strength(sub, isAI, i) = strength(sub, isAI, j)
                        /\ i <= j
       IN <<Features[best]>> \o sortByStrength(S \ {best}, sub, isAI)

\* ReasonGenerator.explain
explain(sub, isAI) ==
  LET notable == {i \in FeatureIds : strength(sub, isAI, i) >= Notable}
  IN IF notable = {} THEN <<"Verdict reached from the aggregate score">>
     ELSE sortByStrength(notable, sub, isAI)

\* how a call ends: it returns a value or it throws (an Error with a
\* message, or some other value)
Returned(v) == [kind |-> "return", value |-> v, isError |-> FALSE, message |-> ""]
Thrown(isError, message) ==
  [kind |-> "throw", value |-> <<>>, isError |-> isError, message |-> message]

NoError == [present |-> FALSE, message |-> ""]
ErrorOf(message) == [present |-> TRUE, message |-> message]

detectAIText(t) ==
  IF t.ling.sentences < MinSentences \/ t.ling.words < MinWords
  THEN Thrown(TRUE, InsufficientDataMessage)
  ELSE IF t.ling.thrown = "Error" THEN Thrown(TRUE, ComputationFaultMessage)
  ELSE IF t.ling.thrown = "EmptyError" THEN Thrown(TRUE, "")
  ELSE IF t.ling.thrown = "NonError" THEN Thrown(FALSE, "")
  ELSE LET a == aggregate(t.ling.sub)
       IN Returned([isAIGenerated |-> a.isAIGenerated,
                    confidence |-> a.confidence,
                    reasons |-> explain(t.ling.sub, a.isAIGenerated),
                    score |-> a.score,
                    error |-> NoError])

(* ----------------------------- safeDetectAI ---------------------------- *)
MinLength == 50
DisplayScale == 10
MinLengthMessage == "Minimum 50 characters required"

tooShort ==
  [isAIGenerated |-> FALSE,
   confidence |-> 0,
   reasons |-> <<"Text too short for reliable analysis">>,
   score |-> 0,
   error |-> ErrorOf(MinLengthMessage),
   perplexityScore |-> 0,
   burstinessScore |-> 0]

\* spread with the two derived fields fed from each other's source
spreadSwapped(r) ==
  [isAIGenerated |-> r.isAIGenerated,
   confidence |-> r.confidence,
   reasons |-> r.reasons,
   score |-> r.score,
   error |-> r.error,
   perplexityScore |-> r.confidence * DisplayScale,
   burstinessScore |-> (One - r.score) * DisplayScale]

\* spread with the display scaling applied to score itself
spreadScaledScore(r) ==
  [isAIGenerated |-> r.isAIGenerated,
   confidence |-> r.confidence,
   reasons |-> r.reasons,
   score |-> r.score * DisplayScale,
   error |-> r.error,
   perplexityScore |-> r.score * DisplayScale * DisplayScale,
   burstinessScore |-> (One - r.confidence) * DisplayScale]

\* spread with confidence replaced by its complement
spreadInvertedConfidence(r) ==
  [isAIGenerated |-> r.isAIGenerated,
   confidence |-> One - r.confidence,
   reasons |-> r.reasons,
   score |-> r.score,
   error |-> r.error,
   perplexityScore |-> r.score * DisplayScale,
   burstinessScore |-> r.confidence * DisplayScale]

RECURSIVE reverse(_)
reverse(s) == IF s = <<>> THEN <<>> ELSE reverse(Tail(s)) \o <<Head(s)>>

\* spread with the reasons in the opposite order
spreadReversedReasons(r) ==
  [isAIGenerated |-> r.isAIGenerated,
   confidence |-> r.confidence,
   reasons |-> reverse(r.reasons),
   score |-> r.score,
   error |-> r.error,
   perplexityScore |-> r.score * DisplayScale,
   burstinessScore |-> (One - r.confidence) * DisplayScale]

\* the object literal of the try block: the engine's fields spread, then the
\* two derived fields
spread(r) ==
  [isAIGenerated |-> r.isAIGenerated,
   confidence |-> r.confidence,
   reasons |-> r.reasons,
   score |-> r.score,
   error |-> r.error,
   perplexityScore |-> r.score * DisplayScale,
   burstinessScore |-> (One - r.confidence) * DisplayScale]

\* the catch block's literal with full confidence
caughtConfident(outcome) ==
  [isAIGenerated |-> FALSE,
   confidence |-> One,
   reasons |-> <<"Error analyzing text">>,
   score |-> 0,
   error |-> ErrorOf(IF outcome.isError THEN outcome.message ELSE "Unknown error"),
   perplexityScore |-> 0,
   burstinessScore |-> 0]

\* the catch block's literal carrying the length guard's message
caughtMinLength(outcome) ==
  [isAIGenerated |-> FALSE,
   confidence |-> 0,
   reasons |-> <<"Error analyzing text">>,
   score |-> 0,
   error |-> ErrorOf(MinLengthMessage),
   perplexityScore |-> 0,
   burstinessScore |-> 0]

\* the object literal of the catch block
caught(outcome) ==
  [isAIGenerated |-> FALSE,
   confidence |-> 0,
   reasons |-> <<"Error analyzing text">>,
   score |-> 0,
   error |-> ErrorOf(IF outcome.isError THEN outcome.message ELSE "Unknown error"),
   perplexityScore |-> 0,
   burstinessScore |-> 0]

\* safeDetectAI measuring the text as given, not trimmed
safeDetectAIUntrimmed(t) ==
  IF length(t) < MinLength
  THEN Returned(tooShort)
  ELSE LET outcome == detectAIText(t)
       IN IF outcome.kind = "return"
          THEN Returned(spread(outcome.value))
          ELSE Returned(caught(outcome))

\* safeDetectAI without its try/catch
safeDetectAIUncaught(t) ==
  IF length(trim(t)) < MinLength
  THEN Returned(tooShort)
  ELSE LET outcome == detectAIText(t)
       IN IF outcome.kind = "return"
          THEN Returned(spread(outcome.value))
          ELSE outcome

safeDetectAI(t) ==
  IF length(trim(t)) < MinLength
  THEN Returned(tooShort)
  ELSE LET outcome == detectAIText(t)
       IN IF outcome.kind = "return"
          THEN Returned(spread(outcome.value))
          ELSE Returned(caught(outcome))

(* ------------------------------- inputs -------------------------------- *)
Ling(sentences, words, thrown, sub) ==
  [sentences |-> sentences, words |-> words, thrown |-> thrown, sub |-> sub]
Text(runs, ling) == [runs |-> runs, ling |-> ling]

SeqsUpTo(S, n) == UNION {[1..k -> S] : k \in 0..n}

\* what the engine can read off a text: too little of it, a text on which a
\* feature computation fails, or a text with a vector of feature sub-scores
Lings ==
  {Ling(s, w, NoThrow, NoSub) : s \in {MinSentences - 1, MinSentences},
                                w \in {MinWords - 1, MinWords}}
  \cup {Ling(MinSentences, MinWords, th, NoSub) :
          th \in {"Error", "EmptyError", "NonError"}}
  \cup {Ling(MinSentences, MinWords, NoThrow, sub) :
          sub \in [FeatureIds -> SubLevels]}

Inputs ==
  {Text(runs, ling) : runs \in SeqsUpTo([kind : Kinds, n : RunLens], MaxRuns),
                      ling \in Lings}

(* ------------------------- Home component state ------------------------ *)
Null == "null"
EmptyString == Text(<<>>, Ling(0, 0, NoThrow, NoSub))

AllSub(v) == [i \in FeatureIds |-> v]
Prose(n, sub) == Text(<<Run("bmp", n)>>, Ling(MinSentences, MinWords, NoThrow, sub))

ExampleKeys == {"chatgpt", "claude", "gemini", "gpt4", "human", "humanCasual"}
predefinedExamples ==
  [k \in ExampleKeys |->
     CASE k = "chatgpt" -> Prose(571, AllSub(One))
       [] k = "claude" -> Prose(379, AllSub(One))
       [] k = "gemini" -> Prose(386, AllSub(One))
       [] k = "gpt4" -> Prose(418, AllSub(One))
       [] k = "human" -> Prose(266, AllSub(0))
       [] k = "humanCasual" -> Prose(359, AllSub(0))]

\* values the textarea's onChange handler is given
Typed ==
  {EmptyString,
   Text(<<Run("ws", 49), Run("ws", 1)>>, Ling(0, 0, NoThrow, NoSub)),
   Text(<<Run("bmp", 49)>>, Ling(MinSentences, MinWords, NoThrow, AllSub(One))),
   Text(<<Run("bmp", 49), Run("ws", 1)>>,
        Ling(MinSentences, MinWords, NoThrow, AllSub(One))),
   Text(<<Run("bmp", 49), Run("bmp", 1)>>,
        Ling(MinSentences, MinWords, NoThrow, [AllSub(0) EXCEPT ![1] = One, ![2] = One, ![5] = One])),
   Text(<<Run("bmp", 49), Run("bmp", 1)>>,
        Ling(MinSentences - 1, MinWords, NoThrow, NoSub)),
   Text(<<Run("astral", 49)>>, Ling(MinSentences, MinWords, "Error", NoSub))}

ButtonIds == {"textarea", "npm-install", "code-usage"}

Init ==
  /\ text = EmptyString
  /\ result = <<>>
  /\ isAnalyzing = FALSE
  /\ selectedExample = Null
  /\ darkMode = TRUE
  /\ copiedStates = <<>>
  /\ pending = <<>>
  /\ writes = <<>>
  /\ timers = <<>>
  /\ call = <<>>
  /\ cleared = FALSE

\* the disabled attribute without its isAnalyzing disjunct
analyzeDisabledWhileIdleOnly == ~truthy(trim(text)) \/ length(text) < MinLength

\* the Analyze button's disabled attribute
analyzeDisabled == ~truthy(trim(text)) \/ length(text) < MinLength \/ isAnalyzing

\* textarea onChange
setText(t) ==
  /\ text' = t
  /\ UNCHANGED <<result, isAnalyzing, selectedExample, pending, call, cleared>>
  /\ UNCHANGED <<darkMode, copyVars>>

\* analyzeText up to its await: the closure keeps the text of this render
analyzeText ==
  /\ ~analyzeDisabled
  /\ IF ~truthy(trim(text))
     THEN UNCHANGED <<isAnalyzing, pending, cleared>>
     ELSE /\ isAnalyzing' = TRUE
          /\ pending' = Append(pending, text)
          /\ cleared' = FALSE
  /\ UNCHANGED <<text, result, selectedExample, call>>
  /\ UNCHANGED <<darkMode, copyVars>>

\* analyzeText resumed without its finally block
analyzeTextResumeNoFinally ==
  /\ pending # <<>>
  /\ LET outcome == safeDetectAI(Head(pending))
     IN /\ call' = <<[arg |-> Head(pending), outcome |-> outcome]>>
        /\ result' = IF outcome.kind = "return" THEN <<outcome.value>> ELSE result
  /\ pending' = Tail(pending)
  /\ UNCHANGED <<text, isAnalyzing, selectedExample, cleared>>
  /\ UNCHANGED <<darkMode, copyVars>>

\* analyzeText resumed, reading the text of the latest render instead of the
\* text its closure captured
analyzeTextResumeLatestText ==
  /\ pending # <<>>
  /\ LET outcome == safeDetectAI(text)
     IN /\ call' = <<[arg |-> text, outcome |-> outcome]>>
        /\ result' = IF outcome.kind = "return" THEN <<outcome.value>> ELSE result
  /\ isAnalyzing' = FALSE
  /\ pending' = Tail(pending)
  /\ UNCHANGED <<text, selectedExample, cleared>>
  /\ UNCHANGED <<darkMode, copyVars>>

\* analyzeText after the 1200 ms timer: detect, store the result (or log
\* what was thrown), and finally clear the flag
analyzeTextResume ==
  /\ pending # <<>>
  /\ LET outcome == safeDetectAI(Head(pending))
     IN /\ call' = <<[arg |-> Head(pending), outcome |-> outcome]>>
        /\ result' = IF outcome.kind = "return" THEN <<outcome.value>> ELSE result
  /\ isAnalyzing' = FALSE
  /\ pending' = Tail(pending)
  /\ UNCHANGED <<text, selectedExample, cleared>>
  /\ UNCHANGED <<darkMode, copyVars>>

loadExample(exampleKey) ==
  /\ text' = predefinedExamples[exampleKey]
  /\ selectedExample' = exampleKey
  /\ result' = <<>>
  /\ cleared' = TRUE
  /\ UNCHANGED <<isAnalyzing, pending, call>>
  /\ UNCHANGED <<darkMode, copyVars>>

\* clearAll that also ends the loading state
clearAllResetsAnalyzing ==
  /\ truthy(text) \/ result # <<>>
  /\ text' = EmptyString
  /\ result' = <<>>
  /\ selectedExample' = Null
  /\ cleared' = TRUE
  /\ isAnalyzing' = FALSE
  /\ UNCHANGED <<pending, call>>
  /\ UNCHANGED <<darkMode, copyVars>>

clearAll ==
  /\ truthy(text) \/ result # <<>>
  /\ text' = EmptyString
  /\ result' = <<>>
  /\ selectedExample' = Null
  /\ cleared' = TRUE
  /\ UNCHANGED <<isAnalyzing, pending, call>>
  /\ UNCHANGED <<darkMode, copyVars>>

toggleDarkMode ==
  /\ darkMode' = ~darkMode
  /\ UNCHANGED <<analysisVars, copyVars>>

\* copyToClipboard up to the clipboard promise
copyToClipboard(buttonId) ==
  /\ buttonId = "textarea" => truthy(text)
  /\ Len(writes) < MaxWrites
  /\ writes' = Append(writes, buttonId)
  /\ UNCHANGED <<analysisVars, darkMode, copiedStates, timers>>

\* the updater without the spread of prev: { [buttonId]: v }
setCopiedNoSpread(prev, buttonId, v) == [k \in {buttonId} |-> v]

\* { ...prev, [buttonId]: v }
setCopied(prev, buttonId, v) ==
  [k \in DOMAIN prev \cup {buttonId} |-> IF k = buttonId THEN v ELSE prev[k]]

\* the clipboard promise resolves: set the flag and start the 2000 ms timer
writeTextResolved ==
  /\ writes # <<>>
  /\ Len(timers) < MaxTimers
  /\ copiedStates' = setCopied(copiedStates, Head(writes), TRUE)
  /\ timers' = Append(timers, Head(writes))
  /\ writes' = Tail(writes)
  /\ UNCHANGED <<analysisVars, darkMode>>

\* the clipboard promise rejects: no handler is attached
writeTextRejected ==
  /\ writes # <<>>
  /\ writes' = Tail(writes)
  /\ UNCHANGED <<analysisVars, darkMode, copiedStates, timers>>

\* the 2000 ms timer of the oldest copy fires
copiedTimeout ==
  /\ timers # <<>>
  /\ copiedStates' = setCopied(copiedStates, Head(timers), FALSE)
  /\ timers' = Tail(timers)
  /\ UNCHANGED <<analysisVars, darkMode, writes>>

\* the whole page
Next ==
  \/ \E t \in Typed : setText(t)
  \/ analyzeText
  \/ analyzeTextResume
  \/ \E k \in ExampleKeys : loadExample(k)
  \/ clearAll
  \/ toggleDarkMode
  \/ \E b \in ButtonIds : copyToClipboard(b)
  \/ writeTextResolved
  \/ writeTextRejected
  \/ copiedTimeout

Spec == Init /\ [][Next]_vars

\* the page with the copy buttons left alone
NextAnalysis ==
  \/ \E t \in Typed : setText(t)
  \/ analyzeText
  \/ analyzeTextResume
  \/ \E k \in ExampleKeys : loadExample(k)
  \/ clearAll
  \/ toggleDarkMode

SpecAnalysis == Init /\ [][NextAnalysis]_vars

\* the 1200 ms timer of the oldest pending analysis fires and the analysis
\* leaves pending: in NextAnalysis these are the analyzeTextResume steps
analysisTimerFires == pending # <<>> /\ pending' = Tail(pending)

\* a timer that was set fires
SpecAnalysisFair == SpecAnalysis /\ WF_pending(analysisTimerFires)

\* the whole page on a few inputs: an empty, a padded and an analysable text,
\* one example of each kind and two of the copy buttons
TypedFew ==
  {EmptyString,
   Text(<<Run("bmp", 49), Run("ws", 1)>>,
        Ling(MinSentences, MinWords, NoThrow, AllSub(One))),
   Text(<<Run("bmp", 49), Run("bmp", 1)>>,
        Ling(MinSentences - 1, MinWords, NoThrow, NoSub))}
ExampleKeysFew == {"chatgpt", "human"}
ButtonIdsFew == {"textarea", "npm-install"}

NextPage ==
  \/ \E t \in TypedFew : setText(t)
  \/ analyzeText
  \/ analyzeTextResume
  \/ \E k \in ExampleKeysFew : loadExample(k)
  \/ clearAll
  \/ toggleDarkMode
  \/ \E b \in ButtonIdsFew : copyToClipboard(b)
  \/ writeTextResolved
  \/ writeTextRejected
  \/ copiedTimeout

SpecPage == Init /\ [][NextPage]_vars

\* the page with the Analyze, example and clear buttons left alone
NextCopy ==
  \/ \E t \in Typed : setText(t)
  \/ \E b \in ButtonIds : copyToClipboard(b)
  \/ writeTextResolved
  \/ writeTextRejected
  \/ copiedTimeout

SpecCopy == Init /\ [][NextCopy]_vars

\* a 2000 ms timer that was set fires
SpecCopyFair == SpecCopy /\ WF_vars(copiedTimeout)

(* ------------------ detect called directly on any text ----------------- *)
InitDetect ==
  /\ text \in Inputs
  /\ result = <<>>
  /\ isAnalyzing = FALSE
  /\ selectedExample = Null
  /\ darkMode = TRUE
  /\ copiedStates = <<>>
  /\ pending = <<>>
  /\ writes = <<>>
  /\ timers = <<>>
  /\ call = <<>>
  /\ cleared = FALSE

detect ==
  /\ call = <<>>
  /\ call' = <<[arg |-> text, outcome |-> safeDetectAI(text)]>>
  /\ UNCHANGED <<text, result, isAnalyzing, selectedExample, pending, cleared>>
  /\ UNCHANGED <<darkMode, copyVars>>

NextDetect == detect

SpecDetect == InitDetect /\ [][NextDetect]_vars

(* ------- detect called directly on texts of graded feature scores ------ *)
StrengthLevels == {0, 30, 70, One}

ReasonInputs ==
  {Text(<<Run("bmp", 49), Run("bmp", 1)>>,
        Ling(MinSentences, MinWords, NoThrow, sub)) :
     sub \in [FeatureIds -> StrengthLevels]}

InitReasons ==
  /\ text \in ReasonInputs
  /\ result = <<>>
  /\ isAnalyzing = FALSE
  /\ selectedExample = Null
  /\ darkMode = TRUE
  /\ copiedStates = <<>>
  /\ pending = <<>>
  /\ writes = <<>>
  /\ timers = <<>>
  /\ call = <<>>
  /\ cleared = FALSE

SpecReasons == InitReasons /\ [][NextDetect]_vars

(* ------------------------------- claims -------------------------------- *)
called == call # <<>>
arg == call[1].arg
returned == call[1].outcome.kind = "return"
value == call[1].outcome.value

\* the degenerate result: never AI-generated, zero confidence and scores,
\* error set
degenerate(r) ==
  /\ ~r.isAIGenerated
  /\ r.confidence = 0
  /\ r.score = 0
  /\ r.perplexityScore = 0
  /\ r.burstinessScore = 0
  /\ r.error.present

\* C1: for every text whose trimmed length (String.length, UTF-16 units) is
\* below 50, safeDetectAI returns the degenerate result with exactly one
\* reason.
C1_ShortTextDegenerate ==
  (called /\ length(trim(arg)) < MinLength) =>
     /\ returned
     /\ degenerate(value)
     /\ Len(value.reasons) = 1

\* a text of 50 units or more whose trimmed, non-empty rest is under 50
C1_Witness ==
  /\ called
  /\ length(arg) >= MinLength
  /\ truthy(trim(arg))
  /\ length(trim(arg)) < MinLength
  /\ returned /\ value.error.message = MinLengthMessage

\* C2: for every non-degenerate result, perplexityScore = score * 10 and
\* burstinessScore = (1 - confidence) * 10 with the score and confidence of
\* that same result.
C2_DerivedScores ==
  (called /\ returned /\ ~value.error.present) =>
     /\ value.perplexityScore = value.score * DisplayScale
     /\ value.burstinessScore = (One - value.confidence) * DisplayScale

\* a result whose score and confidence are neither 0 nor 1
C2_Witness ==
  /\ called /\ returned /\ ~value.error.present
  /\ value.score > 0 /\ value.score < One
  /\ value.confidence > 0 /\ value.confidence < One

\* C3: safeDetectAI returns on every input; when the engine call throws,
\* what it returns is the degenerate result with error set.
C3_FailuresCaught ==
  called =>
     /\ returned
     /\ (length(trim(arg)) >= MinLength /\ detectAIText(arg).kind = "throw")
           => degenerate(value)

\* the engine threw a value that is not an Error
C3_Witness ==
  /\ called
  /\ length(trim(arg)) >= MinLength
  /\ detectAIText(arg).kind = "throw" /\ ~detectAIText(arg).isError
  /\ returned /\ value.error.message = "Unknown error"

\* C4: every returned result with error set has isAIGenerated false and
\* confidence 0.
C4_ErrorMeansConservative ==
  (called /\ returned /\ value.error.present) =>
     ~value.isAIGenerated /\ value.confidence = 0

\* the engine threw an Error and its message is the result's error
C4_Witness ==
  /\ called /\ returned
  /\ value.error.present
  /\ value.error.message = ComputationFaultMessage

\* C5: for every valid text (trimmed length at least 50, the engine returns)
\* score and confidence are in [0,1] and isAIGenerated is score >= 0.5.
C5_ValidRanges ==
  (called /\ length(trim(arg)) >= MinLength /\ detectAIText(arg).kind = "return") =>
     /\ returned
     /\ value.score >= 0 /\ value.score <= One
     /\ value.confidence >= 0 /\ value.confidence <= One
     /\ value.isAIGenerated <=> (value.score >= Threshold)

\* a padded text classified AI-generated with a score strictly between the
\* threshold and 1
C5_Witness ==
  /\ called /\ returned /\ ~value.error.present
  /\ value.isAIGenerated
  /\ value.score > Threshold /\ value.score < One
  /\ length(arg) > length(trim(arg))

\* C6: for every non-degenerate result, confidence = min(1, 2 * |score - 0.5|):
\* 0 exactly when score is 0.5, and 1 when score is 0 or 1.
C6_ConfidenceFromScore ==
  (called /\ returned /\ ~value.error.present) =>
     /\ value.confidence = Min(One, 2 * Abs(value.score - Threshold))
     /\ (value.confidence = 0) <=> (value.score = Threshold)
     /\ value.score \in {0, One} => value.confidence = One

\* a result exactly on the decision boundary
C6_Witness ==
  /\ called /\ returned /\ ~value.error.present
  /\ value.score = Threshold
  /\ value.confidence = 0
  /\ value.isAIGenerated

\* C9: the page never passes to safeDetectAI a text whose trimmed length is
\* under 50.
C9_CallerRejectsShort ==
  called => length(trim(arg)) >= MinLength

\* C10: safeDetectAI returns the minimum-length result for every text whose
\* trimmed length is under 50 code points, and calls the engine only on
\* texts of at least 50 code points.
C10_GuardInCodePoints ==
  (called /\ codePoints(trim(arg)) < MinLength) =>
     returned /\ value = tooShort

\* C11: for a text of trimmed length at least 50 with fewer than 2 sentences
\* or fewer than 10 words, safeDetectAI returns the degenerate result with one
\* reason, and its error message is not the minimum-length message.
C11_InsufficientDataDegenerate ==
  (/\ called
   /\ length(trim(arg)) >= MinLength
   /\ (arg.ling.sentences < MinSentences \/ arg.ling.words < MinWords)) =>
     /\ returned
     /\ degenerate(value)
     /\ Len(value.reasons) = 1
     /\ value.error.message # MinLengthMessage

\* a long enough text of a single sentence
C11_Witness ==
  /\ called
  /\ length(trim(arg)) >= MinLength
  /\ arg.ling.sentences < MinSentences /\ arg.ling.words >= MinWords
  /\ returned /\ value.error.message = InsufficientDataMessage

\* the evidence strength a reason reports: the sub-score, in the direction of
\* the verdict, of the feature it is about (0 for the generic reason)
strengthOf(reason, t, isAI) ==
  IF \E i \in FeatureIds : Features[i] = reason
  THEN strength(t.ling.sub, isAI, CHOOSE i \in FeatureIds : Features[i] = reason)
  ELSE 0

\* C12: for every non-degenerate result, reasons is non-empty and its entries
\* are in descending order of the sub-score of the feature each reports.
C12_ReasonsOrdered ==
  (called /\ returned /\ ~value.error.present) =>
     /\ Len(value.reasons) >= 1
     /\ \A i, j \in DOMAIN value.reasons :
          i < j => strengthOf(value.reasons[i], arg, value.isAIGenerated)
                     >= strengthOf(value.reasons[j], arg, value.isAIGenerated)

\* several reasons, the first strictly stronger than the last
C12_Witness ==
  /\ called /\ returned /\ ~value.error.present
  /\ Len(value.reasons) >= 3
  /\ strengthOf(value.reasons[1], arg, value.isAIGenerated)
       > strengthOf(value.reasons[Len(value.reasons)], arg, value.isAIGenerated)

\* C13: an analysis captures the text as it is when it is started, and its
\* completion stores the one result of safeDetectAI on that captured text,
\* whatever happened to the text in between; a result appears only so.
C13_SnapshotAnalyzed ==
  [][/\ Len(pending') > Len(pending) => pending' = Append(pending, text)
     /\ Len(pending') < Len(pending) =>
          /\ pending' = Tail(pending)
          /\ result' = <<safeDetectAI(Head(pending)).value>>
     /\ (result' # result /\ result' # <<>>) => Len(pending') < Len(pending)
    ]_vars

\* a result stored after clearAll or loadExample replaced the text during
\* the delay: it is the result of the captured text, not of the current one
C13_Witness ==
  /\ cleared
  /\ called /\ returned
  /\ result = <<value>>
  /\ arg # text
  /\ pending = <<>>

\* C14: once clearAll or loadExample has set result to null, result stays
\* null until a new analysis is started.
C14_NoResultAfterClear ==
  cleared => result = <<>>

\* C15: at most one analysis is pending at any time, and while isAnalyzing is
\* true no further analysis is started.
C15_OnePending ==
  /\ [](Len(pending) <= 1)
  /\ [][isAnalyzing => Len(pending') <= Len(pending)]_vars

\* an analysis is pending on a text for which the button would otherwise be
\* enabled
C15_Witness ==
  /\ Len(pending) = 1
  /\ isAnalyzing
  /\ truthy(trim(text))
  /\ length(text) >= MinLength

\* C16: isAnalyzing is true exactly while an analysis is between its start
\* and its completion, and every analysis that set it eventually resets it.
C16_AnalyzingEnds ==
  /\ [](isAnalyzing <=> pending # <<>>)
  /\ isAnalyzing ~> ~isAnalyzing

\* an analysis that ended with a degenerate result and reset the flag
C16_Witness ==
  /\ ~isAnalyzing
  /\ pending = <<>>
  /\ called /\ returned
  /\ value.error.present
  /\ result = <<value>>

\* the flag the page reads as copiedStates[b]: a missing key reads as false
copied(b) == b \in DOMAIN copiedStates /\ copiedStates[b]

\* C17: after a successful copy on button b the flag of b stays true until
\* the timer of the most recent copy on b fires: while a timer of b is still
\* to fire, the flag of b is true.
C17_FlagHeldUntilLastTimer ==
  \A i \in DOMAIN timers : copied(timers[i])

\* C18: every flag that was set to true eventually returns to false, and the
\* flag of a button changes only in a step of a copy on that button: when
\* its clipboard promise resolves or when one of its timers fires.
C18_FlagsReturnAndFrame ==
  /\ \A b \in ButtonIds : copied(b) ~> ~copied(b)
  /\ [][\A b \in ButtonIds :
          (copied(b) # (b \in DOMAIN copiedStates' /\ copiedStates'[b])) =>
             \/ writes # <<>> /\ Head(writes) = b /\ writes' = Tail(writes)
             \/ timers # <<>> /\ Head(timers) = b /\ timers' = Tail(timers)
       ]_vars

\* two buttons were copied and both flags are back to false, no timer left
C18_Witness ==
  /\ Cardinality(DOMAIN copiedStates) >= 2
  /\ \A b \in DOMAIN copiedStates : ~copiedStates[b]
  /\ timers = <<>>
  /\ writes = <<>>

\* C19: clearAll sets text to the empty string, result to null and
\* selectedExample to null; loadExample(k) sets text to example k,
\* selectedExample to k and result to null; both leave isAnalyzing, darkMode
\* and copiedStates unchanged.
C19_ClearAndLoadFrame ==
  [][/\ clearAll =>
          /\ text' = EmptyString
          /\ result' = <<>>
          /\ selectedExample' = Null
          /\ UNCHANGED <<isAnalyzing, darkMode, copiedStates>>
     /\ \A k \in ExampleKeys : loadExample(k) =>
          /\ text' = predefinedExamples[k]
          /\ selectedExample' = k
          /\ result' = <<>>
          /\ UNCHANGED <<isAnalyzing, darkMode, copiedStates>>
    ]_vars

\* clearAll was the last reset, run while an analysis was pending, the theme
\* was light and a copied flag was set
C19_Witness ==
  /\ cleared
  /\ text = EmptyString /\ result = <<>> /\ selectedExample = Null
  /\ isAnalyzing
  /\ ~darkMode
  /\ \E b \in ButtonIds : copied(b)

====
